---- MODULE Spec2Model ----
(***************************************************************************)
(* Masked numeric input: the ATM / account number formatters, validators   *)
(* and key filters of the form components.                                 *)
(*                                                                         *)
(* A string is a sequence of one-character strings.                        *)
(***************************************************************************)
EXTENDS Integers, Sequences, FiniteSets, TLC

VARIABLES raw, op, calls, res, res2, verdict,
          value, key, filter, prevented, pending, events,
          atmNumber, error, isSubmitting, submission, reported,
          atmValue, accountValue, atmError, accountError, formSubmitted,
          change, changes

vars == <<raw, op, calls, res, res2, verdict,
          value, key, filter, prevented, pending, events,
          atmNumber, error, isSubmitting, submission, reported,
          atmValue, accountValue, atmError, accountError, formSubmitted,
          change, changes>>

fmtVars == <<raw, op, calls, res, res2, verdict>>
keyVars == <<value, key, filter, prevented, pending, events>>
\* the ATM Number Registration form (useState)
regVars == <<atmNumber, error, isSubmitting, submission, reported>>
\* the two-field ATM Number Form (react-hook-form)
twoVars == <<atmValue, accountValue, atmError, accountError, formSubmitted>>
\* the last change event of either form, and how many there were
changeVars == <<change, changes>>
formVars == <<regVars, twoVars, changeVars>>

(***************************************************************************)
(* Bounds of the model.                                                    *)
(***************************************************************************)
\* most digits a generated raw input carries (above both caps, 16 and 10)
MaxRawDigits == 18
\* most input events (key presses, pastes) in one behaviour of the key model
MaxEvents == 2
\* most change events (typing, deleting, pasting) the forms receive
MaxChanges == 3

(***************************************************************************)
(* Characters and the JavaScript string primitives the code uses.          *)
(***************************************************************************)
DigitChars == <<"0", "1", "2", "3", "4", "5", "6", "7", "8", "9">>

\* \d without the unicode flag: an ASCII decimal digit
IsDigit(c) == c \in {"0", "1", "2", "3", "4", "5", "6", "7", "8", "9"}

\* \s: white space (space and tab are the ones the inputs carry)
IsSpace(c) == c \in {" ", "\t"}

NotSpaceOrHyphen(c) == ~(IsSpace(c) \/ c = "-")

Min(a, b) == IF a < b THEN a ELSE b

\* String.prototype.slice(a, b) for 0 <= a, 0 <= b
Slice(s, a, b) == SubSeq(s, a + 1, Min(b, Len(s)))

\* value.replace(/\D/g, '')
StripNonDigits(s) == SelectSeq(s, IsDigit)

\* value.replace(/\s|-/g, '')
StripSpaceHyphen(s) == SelectSeq(s, NotSpaceOrHyphen)

RECURSIVE TrimStart(_)
TrimStart(s) ==
  IF s # <<>> /\ IsSpace(Head(s)) THEN TrimStart(Tail(s)) ELSE s

RECURSIVE TrimEnd(_)
TrimEnd(s) ==
  IF s # <<>> /\ IsSpace(s[Len(s)]) THEN TrimEnd(SubSeq(s, 1, Len(s) - 1)) ELSE s

\* String.prototype.trim()
Trim(s) == TrimEnd(TrimStart(s))

\* limitedDigits.match(/.{1,4}/g) || []  : greedy chunks of at most 4
RECURSIVE MatchChunks(_)
MatchChunks(s) ==
  IF s = <<>> THEN <<>>
  ELSE <<Slice(s, 0, 4)>> \o MatchChunks(Slice(s, 4, Len(s)))

\* Array.prototype.join(sep)
RECURSIVE Join(_, _)
Join(groups, sep) ==
  IF groups = <<>> THEN <<>>
  ELSE IF Len(groups) = 1 THEN groups[1]
  ELSE groups[1] \o sep \o Join(Tail(groups), sep)

\* the separator of the template literals and of join(' - ')
Sep == <<" ", "-", " ">>

(***************************************************************************)
(* Regular expressions: a pattern is a sequence of character classes,      *)
(* "d" for \d, "s" for \s, anything else a literal; ^...$ anchors both     *)
(* ends, so the lengths agree.                                             *)
(***************************************************************************)
ClassMatch(cl, c) ==
  IF cl = "d" THEN IsDigit(c)
  ELSE IF cl = "s" THEN IsSpace(c)
  ELSE c = cl

RegexTest(pat, s) ==
  /\ Len(s) = Len(pat)
  /\ \A i \in 1..Len(pat) : ClassMatch(pat[i], s[i])

D4 == <<"d", "d", "d", "d">>
D3 == <<"d", "d", "d">>

\* /^\d{4} - \d{4} - \d{4} - \d{4}$/
AtmPatternLiteral == D4 \o Sep \o D4 \o Sep \o D4 \o Sep \o D4

\* /^\d{4}\s-\s\d{4}\s-\s\d{4}\s-\s\d{4}$/
AtmPatternSpace ==
  D4 \o <<"s", "-", "s">> \o D4 \o <<"s", "-", "s">> \o D4 \o <<"s", "-", "s">> \o D4

\* /^\d{3}\s-\s\d{3}\s-\s\d{4}$/
AccountPatternSpace ==
  D3 \o <<"s", "-", "s">> \o D3 \o <<"s", "-", "s">> \o D4

(***************************************************************************)
(* Formatters.                                                             *)
(***************************************************************************)
\* the chunk-and-join formatter without the removal of non-digit characters
useAtmMask_formatAtmNumber_noStrip(v) ==
  LET limitedDigits == Slice(v, 0, 16)
      groups == MatchChunks(limitedDigits)
  IN  Join(groups, Sep)

\* useAtmMask.formatAtmNumber: chunk and join
useAtmMask_formatAtmNumber(v) ==
  LET digits == StripNonDigits(v)
      limitedDigits == Slice(digits, 0, 16)
      groups == MatchChunks(limitedDigits)
  IN  Join(groups, Sep)

\* the if / else formatter whose last group stops one digit early
formatAtmNumber_dropsLast(v) ==
  LET digits == StripNonDigits(v)
      limitedDigits == Slice(digits, 0, 16)
      n == Len(limitedDigits)
  IN  IF Len(limitedDigits) <= 4 THEN limitedDigits
      ELSE IF Len(limitedDigits) <= 8
        THEN Slice(limitedDigits, 0, 4) \o Sep \o Slice(limitedDigits, 4, n)
      ELSE IF Len(limitedDigits) <= 12
        THEN Slice(limitedDigits, 0, 4) \o Sep \o Slice(limitedDigits, 4, 8)
             \o Sep \o Slice(limitedDigits, 8, n)
      ELSE Slice(limitedDigits, 0, 4) \o Sep \o Slice(limitedDigits, 4, 8)
           \o Sep \o Slice(limitedDigits, 8, 12) \o Sep \o Slice(limitedDigits, 12, 15)

\* the if / else formatter with < 4 for <= 4 in the first branch
formatAtmNumber_strictFirst(v) ==
  LET digits == StripNonDigits(v)
      limitedDigits == Slice(digits, 0, 16)
      n == Len(limitedDigits)
  IN  IF Len(limitedDigits) < 4 THEN limitedDigits
      ELSE IF Len(limitedDigits) <= 8
        THEN Slice(limitedDigits, 0, 4) \o Sep \o Slice(limitedDigits, 4, n)
      ELSE IF Len(limitedDigits) <= 12
        THEN Slice(limitedDigits, 0, 4) \o Sep \o Slice(limitedDigits, 4, 8)
             \o Sep \o Slice(limitedDigits, 8, n)
      ELSE Slice(limitedDigits, 0, 4) \o Sep \o Slice(limitedDigits, 4, 8)
           \o Sep \o Slice(limitedDigits, 8, 12) \o Sep \o Slice(limitedDigits, 12, n)

\* formatAtmNumber of the two-field form: if / else on the length
formatAtmNumber(v) ==
  LET digits == StripNonDigits(v)
      limitedDigits == Slice(digits, 0, 16)
      n == Len(limitedDigits)
  IN  IF Len(limitedDigits) <= 4 THEN limitedDigits
      ELSE IF Len(limitedDigits) <= 8
        THEN Slice(limitedDigits, 0, 4) \o Sep \o Slice(limitedDigits, 4, n)
      ELSE IF Len(limitedDigits) <= 12
        THEN Slice(limitedDigits, 0, 4) \o Sep \o Slice(limitedDigits, 4, 8)
             \o Sep \o Slice(limitedDigits, 8, n)
      ELSE Slice(limitedDigits, 0, 4) \o Sep \o Slice(limitedDigits, 4, 8)
           \o Sep \o Slice(limitedDigits, 8, 12) \o Sep \o Slice(limitedDigits, 12, n)

\* the single-field formatter with < 8 for <= 8 in the second branch
formatAtmNumberSingle_strictBound(v) ==
  LET digits == StripNonDigits(v)
      limitedDigits == Slice(digits, 0, 16)
      n == Len(limitedDigits)
  IN  IF Len(limitedDigits) <= 4 THEN limitedDigits
      ELSE IF Len(limitedDigits) < 8
        THEN Slice(limitedDigits, 0, 4) \o Sep \o Slice(limitedDigits, 4, n)
      ELSE IF Len(limitedDigits) <= 12
        THEN Slice(limitedDigits, 0, 4) \o Sep \o Slice(limitedDigits, 4, 8)
             \o Sep \o Slice(limitedDigits, 8, n)
      ELSE Slice(limitedDigits, 0, 4) \o Sep \o Slice(limitedDigits, 4, 8)
           \o Sep \o Slice(limitedDigits, 8, 12) \o Sep \o Slice(limitedDigits, 12, n)

\* formatAtmNumber of the single-field form (a second copy of the same code)
formatAtmNumberSingle(v) ==
  LET digits == StripNonDigits(v)
      limitedDigits == Slice(digits, 0, 16)
      n == Len(limitedDigits)
  IN  IF Len(limitedDigits) <= 4 THEN limitedDigits
      ELSE IF Len(limitedDigits) <= 8
        THEN Slice(limitedDigits, 0, 4) \o Sep \o Slice(limitedDigits, 4, n)
      ELSE IF Len(limitedDigits) <= 12
        THEN Slice(limitedDigits, 0, 4) \o Sep \o Slice(limitedDigits, 4, 8)
             \o Sep \o Slice(limitedDigits, 8, n)
      ELSE Slice(limitedDigits, 0, 4) \o Sep \o Slice(limitedDigits, 4, 8)
           \o Sep \o Slice(limitedDigits, 8, 12) \o Sep \o Slice(limitedDigits, 12, n)

\* the account formatter with the ATM limit of 16 digits
formatAccountNumber_limit16(v) ==
  LET digits == StripNonDigits(v)
      limitedDigits == Slice(digits, 0, 16)
      n == Len(limitedDigits)
  IN  IF Len(limitedDigits) <= 3 THEN limitedDigits
      ELSE IF Len(limitedDigits) <= 6
        THEN Slice(limitedDigits, 0, 3) \o Sep \o Slice(limitedDigits, 3, n)
      ELSE Slice(limitedDigits, 0, 3) \o Sep \o Slice(limitedDigits, 3, 6)
           \o Sep \o Slice(limitedDigits, 6, n)

formatAccountNumber(v) ==
  LET digits == StripNonDigits(v)
      limitedDigits == Slice(digits, 0, 10)
      n == Len(limitedDigits)
  IN  IF Len(limitedDigits) <= 3 THEN limitedDigits
      ELSE IF Len(limitedDigits) <= 6
        THEN Slice(limitedDigits, 0, 3) \o Sep \o Slice(limitedDigits, 3, n)
      ELSE Slice(limitedDigits, 0, 3) \o Sep \o Slice(limitedDigits, 3, 6)
           \o Sep \o Slice(limitedDigits, 6, n)

(***************************************************************************)
(* Validators.  Each returns the message of the first check that fails,    *)
(* NoError when every check passes.                                        *)
(***************************************************************************)
NoError == "null"

validateAtmNumber(v) ==
  IF v = <<>> \/ Trim(v) = <<>> THEN "ATM number is required"
  ELSE LET digits == StripNonDigits(v)
       IN  IF Len(digits) < 16 THEN "ATM number must be 16 digits"
           ELSE IF ~RegexTest(AtmPatternLiteral, v)
             THEN "ATM number must be in format: 0000 - 0000 - 0000 - 0000"
           ELSE NoError

\* formSchema.atmNumber with a pattern that has no spaces around the hyphens
formSchema_atmNumber_noSpaces(v) ==
  IF ~(Len(v) >= 1) THEN "ATM number should not be empty"
  ELSE IF ~(Len(StripSpaceHyphen(v)) >= 15)
    THEN "ATM number must be at least 15 characters"
  ELSE IF ~RegexTest(D4 \o <<"-">> \o D4 \o <<"-">> \o D4 \o <<"-">> \o D4, v)
    THEN "ATM number must be in format: 0000 - 0000 - 0000 - 0000"
  ELSE NoError

\* formSchema.atmNumber (two-field form)
formSchema_atmNumber(v) ==
  IF ~(Len(v) >= 1) THEN "ATM number should not be empty"
  ELSE IF ~(Len(StripSpaceHyphen(v)) >= 15)
    THEN "ATM number must be at least 15 characters"
  ELSE IF ~RegexTest(AtmPatternSpace, v)
    THEN "ATM number must be in format: 0000 - 0000 - 0000 - 0000"
  ELSE NoError

\* formSchema.accountNumber (two-field form)
formSchema_accountNumber(v) ==
  IF ~(Len(v) >= 1) THEN "Account number should not be empty"
  ELSE IF ~(Len(StripSpaceHyphen(v)) >= 10)
    THEN "Account number must be at least 10 characters"
  ELSE IF ~RegexTest(AccountPatternSpace, v)
    THEN "Account number must be in format: 000 - 000 - 0000"
  ELSE NoError

\* atmSchema.atmNumber (single-field form)
atmSchema_atmNumber(v) ==
  IF ~(Len(v) >= 1) THEN "ATM number should not be empty"
  ELSE IF ~(Len(StripSpaceHyphen(v)) >= 15)
    THEN "ATM number must be at least 15 characters"
  ELSE IF ~RegexTest(AtmPatternSpace, v)
    THEN "ATM number must be in format: 0000 - 0000 - 0000 - 0000"
  ELSE NoError

\* schema.atmNumber (react-input-mask form)
schema_atmNumber(v) ==
  IF ~(Len(v) >= 1) THEN "ATM number is required"
  ELSE IF ~RegexTest(AtmPatternLiteral, v)
    THEN "ATM number must be in format: 0000 - 0000 - 0000 - 0000"
  ELSE IF ~(Len(StripSpaceHyphen(v)) = 16) THEN "ATM number must be 16 digits"
  ELSE NoError

(***************************************************************************)
(* Raw inputs: what e.target.value or a validated string can carry.        *)
(* n digits, bare or grouped as an ATM or an account number under one of   *)
(* several separators, with at most one stray character inserted.          *)
(***************************************************************************)
\* the digits 1234567890123... , n of them
Digs(n) == [i \in 1..n |-> DigitChars[(i % 10) + 1]]

RECURSIVE SplitBy(_, _)
SplitBy(d, lens) ==
  IF d = <<>> THEN <<>>
  ELSE IF lens = <<>> THEN <<d>>
  ELSE <<SubSeq(d, 1, Min(lens[1], Len(d)))>>
       \o SplitBy(SubSeq(d, lens[1] + 1, Len(d)), Tail(lens))

RECURSIVE Glue(_, _)
Glue(parts, sep) ==
  IF parts = <<>> THEN <<>>
  ELSE IF Len(parts) = 1 THEN parts[1]
  ELSE parts[1] \o sep \o Glue(Tail(parts), sep)

AtmGroups == <<4, 4, 4, 4>>
AccountGroups == <<3, 3, 4>>

Separators == {<<>>, <<" ", "-", " ">>, <<"\t", "-", "\t">>, <<"-">>, <<" ">>}

StrayChars == {" ", "a", "7"}

InsertAt(s, p, c) == SubSeq(s, 1, p) \o <<c>> \o SubSeq(s, p + 1, Len(s))

BaseInputs ==
  { Glue(SplitBy(Digs(n), g), sep) :
      n \in 0..MaxRawDigits, g \in {AtmGroups, AccountGroups}, sep \in Separators }

RawInputs ==
  BaseInputs \cup
  UNION { { InsertAt(b, p, c) : p \in 0..Len(b), c \in StrayChars } : b \in BaseInputs }

(***************************************************************************)
(* The formatters and validators applied to one raw input.                 *)
(***************************************************************************)
\* no key event has been handled yet
NoKey ==
  [keyCode |-> 0, ctrlKey |-> FALSE, shiftKey |-> FALSE, metaKey |-> FALSE,
   targetValue |-> <<>>]

KeyIdle ==
  /\ value = <<>>
  /\ key = NoKey
  /\ filter = "none"
  /\ prevented = FALSE
  /\ pending = <<>>
  /\ events = 0

\* no change event has been handled yet
NoChange == [field |-> "none", kind |-> "none", before |-> <<>>, raw |-> <<>>]

\* both forms as mounted: useState('') / defaultValues, no error, no submission
FormsIdle ==
  /\ atmNumber = <<>>
  /\ error = NoError
  /\ isSubmitting = FALSE
  /\ submission = <<>>
  /\ reported = <<>>
  /\ atmValue = <<>>
  /\ accountValue = <<>>
  /\ atmError = NoError
  /\ accountError = NoError
  /\ formSubmitted = <<>>
  /\ change = NoChange
  /\ changes = 0

InitFmt ==
  /\ raw \in RawInputs
  /\ op = "none"
  /\ calls = 0
  /\ res = <<>>
  /\ res2 = <<>>
  /\ verdict = "none"
  /\ KeyIdle
  /\ FormsIdle

\* a formatter called on the raw input, then on its own output
CallFormatter(name, out1, out2) ==
  /\ \/ /\ calls = 0
        /\ op' = name
        /\ res' = out1
        /\ res2' = res2
     \/ /\ calls = 1
        /\ op = name
        /\ op' = op
        /\ res' = res
        /\ res2' = out2
  /\ calls' = calls + 1
  /\ UNCHANGED <<raw, verdict>>
  /\ UNCHANGED <<keyVars, formVars>>

CallValidator(name, msg) ==
  /\ calls = 0
  /\ op' = name
  /\ calls' = 1
  /\ verdict' = msg
  /\ UNCHANGED <<raw, res, res2>>
  /\ UNCHANGED <<keyVars, formVars>>

FormatAtmHook ==
  CallFormatter("useAtmMask.formatAtmNumber",
                useAtmMask_formatAtmNumber(raw), useAtmMask_formatAtmNumber(res))

FormatAtm ==
  CallFormatter("formatAtmNumber", formatAtmNumber(raw), formatAtmNumber(res))

FormatAtmSingle ==
  CallFormatter("formatAtmNumberSingle",
                formatAtmNumberSingle(raw), formatAtmNumberSingle(res))

FormatAccount ==
  CallFormatter("formatAccountNumber", formatAccountNumber(raw), formatAccountNumber(res))

ValidateAtm == CallValidator("validateAtmNumber", validateAtmNumber(raw))

ValidateFormAtm == CallValidator("formSchema.atmNumber", formSchema_atmNumber(raw))

ValidateFormAccount ==
  CallValidator("formSchema.accountNumber", formSchema_accountNumber(raw))

ValidateAtmSchema == CallValidator("atmSchema.atmNumber", atmSchema_atmNumber(raw))

ValidateMaskSchema == CallValidator("schema.atmNumber", schema_atmNumber(raw))

\* the output of a formatter handed to the validator of the same form
ValidateOutput(name, msg) ==
  /\ calls = 1
  /\ op = name
  /\ verdict = "none"
  /\ verdict' = msg
  /\ UNCHANGED <<raw, op, calls, res, res2>>
  /\ UNCHANGED <<keyVars, formVars>>

ValidateOutputHook ==
  ValidateOutput("useAtmMask.formatAtmNumber", validateAtmNumber(res))

ValidateOutputAtm == ValidateOutput("formatAtmNumber", formSchema_atmNumber(res))

ValidateOutputAtmSingle ==
  ValidateOutput("formatAtmNumberSingle", atmSchema_atmNumber(res))

ValidateOutputAccount ==
  ValidateOutput("formatAccountNumber", formSchema_accountNumber(res))

NextFmt ==
  \/ ValidateOutputHook
  \/ ValidateOutputAtm
  \/ ValidateOutputAtmSingle
  \/ ValidateOutputAccount
  \/ FormatAtmHook
  \/ FormatAtm
  \/ FormatAtmSingle
  \/ FormatAccount
  \/ ValidateAtm
  \/ ValidateFormAtm
  \/ ValidateFormAccount
  \/ ValidateAtmSchema
  \/ ValidateMaskSchema

SpecFmt == InitFmt /\ [][NextFmt]_vars

(***************************************************************************)
(* Properties of the formatters.                                           *)
(***************************************************************************)
AtmFormatters ==
  {"useAtmMask.formatAtmNumber", "formatAtmNumber", "formatAtmNumberSingle"}

Formatters == AtmFormatters \cup {"formatAccountNumber"}

MaxDigitsOf(name) == IF name \in AtmFormatters THEN 16 ELSE 10

GroupSpecOf(name) == IF name \in AtmFormatters THEN AtmGroups ELSE AccountGroups

IsDigitString(s) == \A i \in 1..Len(s) : IsDigit(s[i])

\* the digits of s, in order
RECURSIVE DigitsIn(_)
DigitsIn(s) ==
  IF s = <<>> THEN <<>>
  ELSE (IF IsDigit(s[1]) THEN <<s[1]>> ELSE <<>>) \o DigitsIn(Tail(s))

Formatted == calls >= 1 /\ op \in Formatters

\* C1: for a digit string of length 0..maxDigits, stripping every non-digit
\* character from a formatter's output gives the digit string back.
C1_RoundTrip ==
  (Formatted /\ IsDigitString(raw) /\ Len(raw) <= MaxDigitsOf(op))
    => DigitsIn(res) = raw

C1_Witness ==
  /\ Formatted
  /\ op = "formatAtmNumber"
  /\ IsDigitString(raw)
  /\ Len(raw) = 16
  /\ Len(res) = 25
  /\ DigitsIn(res) = raw

\* C2: for every raw input, a formatter applied to its own output returns
\* that output unchanged.
C2_Idempotent ==
  (calls = 2 /\ op \in Formatters) => res2 = res

C2_Witness ==
  /\ calls = 2
  /\ op = "useAtmMask.formatAtmNumber"
  /\ ~IsDigitString(raw)
  /\ Len(DigitsIn(raw)) > 16
  /\ res # raw
  /\ res2 = res

\* C3: the digits of a formatter's output are the first maxDigits digits of
\* the input, in order; the output holds nothing but digits, spaces and
\* hyphens; an input without digits gives the empty string.
C3_ExtractTruncate ==
  Formatted =>
    /\ DigitsIn(res) = SubSeq(DigitsIn(raw), 1, Min(MaxDigitsOf(op), Len(DigitsIn(raw))))
    /\ \A i \in 1..Len(res) : IsDigit(res[i]) \/ res[i] \in {" ", "-"}
    /\ (DigitsIn(raw) = <<>> => res = <<>>)

C3_Witness ==
  /\ Formatted
  /\ op = "formatAccountNumber"
  /\ Len(DigitsIn(raw)) > 10
  /\ \E i \in 1..Len(raw) : raw[i] = "a"
  /\ Len(DigitsIn(res)) = 10

\* C4: for a digit string of length 0..maxDigits the output is the digits cut
\* left to right into groups of the configured lengths, only the last group
\* possibly short, joined by " - ", with no separator at either end.
C4_GroupingShape ==
  (Formatted /\ IsDigitString(raw) /\ Len(raw) <= MaxDigitsOf(op)) =>
    /\ res = Glue(SplitBy(raw, GroupSpecOf(op)), <<" ", "-", " ">>)
    /\ (res # <<>> => IsDigit(res[1]) /\ IsDigit(res[Len(res)]))

C4_Witness ==
  /\ Formatted
  /\ op = "formatAtmNumberSingle"
  /\ raw = <<"1", "2", "3", "4", "5">>
  /\ res = <<"1", "2", "3", "4", " ", "-", " ", "5">>

(***************************************************************************)
(* Properties of the validators.                                           *)
(***************************************************************************)
AtmValidators ==
  {"validateAtmNumber", "formSchema.atmNumber", "atmSchema.atmNumber", "schema.atmNumber"}

Validators == AtmValidators \cup {"formSchema.accountNumber"}

Validated == calls = 1 /\ op \in Validators

RequiredDigitsOf(name) == IF name \in AtmValidators THEN 16 ELSE 10

GroupsOfValidator(name) == IF name \in AtmValidators THEN AtmGroups ELSE AccountGroups

EmptyMessages ==
  {"ATM number is required", "ATM number should not be empty",
   "Account number should not be empty"}

TooShortMessages ==
  {"ATM number must be 16 digits", "ATM number must be at least 15 characters",
   "Account number must be at least 10 characters"}

PatternMessages ==
  {"ATM number must be in format: 0000 - 0000 - 0000 - 0000",
   "Account number must be in format: 000 - 000 - 0000"}

AllWhitespace(s) == \A i \in 1..Len(s) : s[i] \in {" ", "\t"}

\* s is its own digits, as many as the groups hold, grouped and joined by " - "
ExactlyGrouped(s, groups) ==
  /\ Len(SplitBy(DigitsIn(s), groups)) = Len(groups)
  /\ \A i \in 1..Len(groups) : Len(SplitBy(DigitsIn(s), groups)[i]) = groups[i]
  /\ s = Glue(SplitBy(DigitsIn(s), groups), <<" ", "-", " ">>)

\* C5: a validator accepts a string if and only if it has at least the
\* required number of digits and is exactly the groups joined by " - ".
C5_ValidityConjunction ==
  Validated =>
    ((verdict = NoError) <=>
       /\ Len(DigitsIn(raw)) >= RequiredDigitsOf(op)
       /\ ExactlyGrouped(raw, GroupsOfValidator(op)))

\* C6: a string that is not empty, not all white space and has fewer digits
\* than required is rejected, and the first reason reported is too-short.
C6_TooShortFirst ==
  (/\ Validated
   /\ raw # <<>>
   /\ ~AllWhitespace(raw)
   /\ Len(DigitsIn(raw)) < RequiredDigitsOf(op))
    => verdict \in TooShortMessages

\* C7: an empty or all-white-space string is rejected with the empty reason.
C7_EmptyVerdict ==
  (Validated /\ AllWhitespace(raw)) => verdict \in EmptyMessages

(***************************************************************************)
(* Key filters.  A key event e carries keyCode, ctrlKey, shiftKey, metaKey *)
(* and the value of its target input.  A filter returns TRUE when it calls *)
(* e.preventDefault().                                                     *)
(***************************************************************************)
\* handleKeyDown without the 16 digit check
useAtmMask_handleKeyDown_noLimit(e) ==
  IF \/ e.keyCode \in {8, 9, 27, 13, 46}
     \/ (e.keyCode = 65 /\ e.ctrlKey = TRUE)
     \/ (e.keyCode = 67 /\ e.ctrlKey = TRUE)
     \/ (e.keyCode = 86 /\ e.ctrlKey = TRUE)
     \/ (e.keyCode = 88 /\ e.ctrlKey = TRUE)
     \/ (e.keyCode = 90 /\ e.ctrlKey = TRUE)
     \/ (e.keyCode >= 35 /\ e.keyCode <= 39)
    THEN FALSE
  ELSE IF /\ (e.shiftKey \/ (e.keyCode < 48 \/ e.keyCode > 57))
          /\ (e.keyCode < 96 \/ e.keyCode > 105)
    THEN TRUE
  ELSE FALSE

\* useAtmMask.handleKeyDown
useAtmMask_handleKeyDown(e) ==
  LET currentValue == e.targetValue
      currentDigits == StripNonDigits(currentValue)
  IN  IF \/ e.keyCode \in {8, 9, 27, 13, 46}
         \/ (e.keyCode = 65 /\ e.ctrlKey = TRUE)
         \/ (e.keyCode = 67 /\ e.ctrlKey = TRUE)
         \/ (e.keyCode = 86 /\ e.ctrlKey = TRUE)
         \/ (e.keyCode = 88 /\ e.ctrlKey = TRUE)
         \/ (e.keyCode = 90 /\ e.ctrlKey = TRUE)
         \/ (e.keyCode >= 35 /\ e.keyCode <= 39)
        THEN FALSE
      ELSE IF Len(currentDigits) >= 16 THEN TRUE
      ELSE IF /\ (e.shiftKey \/ (e.keyCode < 48 \/ e.keyCode > 57))
              /\ (e.keyCode < 96 \/ e.keyCode > 105)
        THEN TRUE
      ELSE FALSE

\* the masked input's handleKeyDown without the test of e.shiftKey
AtmNumberInput_handleKeyDown_ignoresShift(e) ==
  IF \/ e.keyCode \in {8, 9, 27, 13, 46}
     \/ (e.keyCode = 65 /\ e.ctrlKey = TRUE)
     \/ (e.keyCode = 67 /\ e.ctrlKey = TRUE)
     \/ (e.keyCode = 86 /\ e.ctrlKey = TRUE)
     \/ (e.keyCode = 88 /\ e.ctrlKey = TRUE)
     \/ (e.keyCode = 90 /\ e.ctrlKey = TRUE)
     \/ (e.keyCode >= 35 /\ e.keyCode <= 39)
    THEN FALSE
  ELSE IF /\ (e.keyCode < 48 \/ e.keyCode > 57)
          /\ (e.keyCode < 96 \/ e.keyCode > 105)
    THEN TRUE
  ELSE FALSE

\* AtmNumberInput.handleKeyDown of the react-input-mask form
AtmNumberInput_handleKeyDown(e) ==
  IF \/ e.keyCode \in {8, 9, 27, 13, 46}
     \/ (e.keyCode = 65 /\ e.ctrlKey = TRUE)
     \/ (e.keyCode = 67 /\ e.ctrlKey = TRUE)
     \/ (e.keyCode = 86 /\ e.ctrlKey = TRUE)
     \/ (e.keyCode = 88 /\ e.ctrlKey = TRUE)
     \/ (e.keyCode = 90 /\ e.ctrlKey = TRUE)
     \/ (e.keyCode >= 35 /\ e.keyCode <= 39)
    THEN FALSE
  ELSE IF /\ (e.shiftKey \/ (e.keyCode < 48 \/ e.keyCode > 57))
          /\ (e.keyCode < 96 \/ e.keyCode > 105)
    THEN TRUE
  ELSE FALSE

(***************************************************************************)
(* The text input the filters are attached to: key codes of the keyboard,  *)
(* and what a key that was not suppressed does to the text (caret at the   *)
(* end, nothing selected).                                                 *)
(***************************************************************************)
\* backspace tab enter escape space pagedown end home left up right down
\* delete / 0 9 : A B C V X Z _ numpad0 numpad9 numpad* hyphen
KeyCodes ==
  {8, 9, 13, 27, 32, 34, 35, 36, 37, 38, 39, 40, 46, 47, 48, 57, 58,
   65, 66, 67, 86, 88, 90, 95, 96, 105, 106, 189}

\* modifier keys held: none, control, shift, command, control and shift
Modifiers ==
  { [ctrlKey |-> FALSE, shiftKey |-> FALSE, metaKey |-> FALSE],
    [ctrlKey |-> TRUE, shiftKey |-> FALSE, metaKey |-> FALSE],
    [ctrlKey |-> FALSE, shiftKey |-> TRUE, metaKey |-> FALSE],
    [ctrlKey |-> FALSE, shiftKey |-> FALSE, metaKey |-> TRUE],
    [ctrlKey |-> TRUE, shiftKey |-> TRUE, metaKey |-> FALSE] }

KeyEvents(target) ==
  { [keyCode |-> c, ctrlKey |-> m.ctrlKey, shiftKey |-> m.shiftKey,
     metaKey |-> m.metaKey, targetValue |-> target] :
      c \in KeyCodes, m \in Modifiers }

\* the character a key types, <<>> when it types none
TypedChar(e) ==
  IF e.ctrlKey \/ e.metaKey THEN <<>>
  ELSE IF e.keyCode >= 48 /\ e.keyCode <= 57
    THEN (IF e.shiftKey THEN <<"!">> ELSE <<DigitChars[e.keyCode - 48 + 1]>>)
  ELSE IF e.keyCode >= 96 /\ e.keyCode <= 105 THEN <<DigitChars[e.keyCode - 96 + 1]>>
  ELSE IF e.keyCode >= 65 /\ e.keyCode <= 90 THEN <<"a">>
  ELSE IF e.keyCode = 32 THEN <<" ">>
  ELSE IF e.keyCode = 189 THEN <<"-">>
  ELSE IF e.keyCode = 106 THEN <<"*">>
  ELSE <<>>

\* texts the clipboard can hold
PasteTexts ==
  { Digs(14), Glue(SplitBy(Digs(15), AtmGroups), <<" ", "-", " ">>), Digs(16),
    <<"a", "7">> }

\* the clipboard texts that matter to key e: all of them for a paste
ClipboardFor(e) ==
  IF e.keyCode = 86 /\ (e.ctrlKey \/ e.metaKey) THEN PasteTexts ELSE {<<>>}

\* the text of the input after the default action of key e, with clipboard clip
DefaultAction(e, clip) ==
  LET v == e.targetValue
  IN  IF e.keyCode = 8 /\ ~e.ctrlKey /\ ~e.metaKey
        THEN SubSeq(v, 1, Len(v) - 1)
      ELSE IF e.keyCode = 86 /\ (e.ctrlKey \/ e.metaKey) THEN v \o clip
      ELSE v \o TypedChar(e)

InitKey ==
  /\ raw = <<>>
  /\ op = "none"
  /\ calls = 0
  /\ res = <<>>
  /\ res2 = <<>>
  /\ verdict = "none"
  /\ KeyIdle
  /\ FormsIdle

\* a key goes down in the input of useAtmMask; unless suppressed, its default
\* action edits the text and a change event is due
KeyDownHook(e, clip) ==
  /\ pending = <<>>
  /\ events < MaxEvents
  /\ e.targetValue = value
  /\ key' = e
  /\ filter' = "useAtmMask"
  /\ prevented' = useAtmMask_handleKeyDown(e)
  /\ pending' = IF ~useAtmMask_handleKeyDown(e) /\ DefaultAction(e, clip) # value
                  THEN <<DefaultAction(e, clip)>>
                  ELSE <<>>
  /\ events' = events + 1
  /\ UNCHANGED value
  /\ UNCHANGED <<fmtVars, formVars>>

\* a key goes down in the masked input of the react-input-mask form
KeyDownMask(e) ==
  /\ pending = <<>>
  /\ events < MaxEvents
  /\ e.targetValue = value
  /\ key' = e
  /\ filter' = "AtmNumberInput"
  /\ prevented' = AtmNumberInput_handleKeyDown(e)
  /\ events' = events + 1
  /\ UNCHANGED <<value, pending>>
  /\ UNCHANGED <<fmtVars, formVars>>

\* text pasted or dropped with the mouse: no key event
PasteByMouse(clip) ==
  /\ pending = <<>>
  /\ events < MaxEvents
  /\ pending' = <<value \o clip>>
  /\ events' = events + 1
  /\ UNCHANGED <<value, key, filter, prevented>>
  /\ UNCHANGED <<fmtVars, formVars>>

\* useAtmMask.handleAtmChange with onChange = handleAtmNumberChange
HandleAtmChange ==
  /\ pending # <<>>
  /\ value' = useAtmMask_formatAtmNumber(pending[1])
  /\ pending' = <<>>
  /\ UNCHANGED <<key, filter, prevented, events>>
  /\ UNCHANGED <<fmtVars, formVars>>

NextKey ==
  \/ \E e \in KeyEvents(value) : \E clip \in ClipboardFor(e) : KeyDownHook(e, clip)
  \/ \E e \in KeyEvents(value) : KeyDownMask(e)
  \/ \E clip \in PasteTexts : PasteByMouse(clip)
  \/ HandleAtmChange

SpecKey == InitKey /\ [][NextKey]_vars

(***************************************************************************)
(* Properties of the key filters.                                          *)
(***************************************************************************)
\* backspace delete tab escape enter left up right down home end
ControlNavigationKey(e) ==
  e.keyCode \in {8, 46, 9, 27, 13, 37, 38, 39, 40, 36, 35}

\* A C V X Z with control or command held
ModifierShortcut(e) ==
  e.keyCode \in {65, 67, 86, 88, 90} /\ (e.ctrlKey \/ e.metaKey)

\* C8: no filter suppresses a control / navigation key, whatever the digit
\* count of the field.
C8_ControlKeysAllowed ==
  (filter # "none" /\ ControlNavigationKey(key)) => ~prevented

\* C9: no filter suppresses select-all, copy, paste, cut or undo while
\* control or command is held.
C9_ShortcutsAllowed ==
  (filter # "none" /\ ModifierShortcut(key)) => ~prevented

\* C10: with 16 digits in the field useAtmMask.handleKeyDown suppresses every
\* key that is neither a control / navigation key nor a modifier shortcut,
\* and the field never holds more than 16 digits.
C10_CapSuppresses ==
  /\ (/\ filter = "useAtmMask"
      /\ Len(DigitsIn(key.targetValue)) = 16
      /\ ~ControlNavigationKey(key)
      /\ ~ModifierShortcut(key)) => prevented
  /\ Len(DigitsIn(value)) <= 16

C10_Witness ==
  /\ filter = "useAtmMask"
  /\ Len(DigitsIn(key.targetValue)) = 16
  /\ key.keyCode = 105
  /\ ~key.ctrlKey /\ ~key.metaKey
  /\ prevented
  /\ Len(DigitsIn(value)) = 16

\* the character of a keystroke (the key with its shift state, whatever
\* control or command do to it), <<>> for a key that has none
KeyCharacter(e) ==
  IF e.keyCode >= 48 /\ e.keyCode <= 57
    THEN (IF e.shiftKey THEN <<"!">> ELSE <<DigitChars[e.keyCode - 48 + 1]>>)
  ELSE IF e.keyCode >= 96 /\ e.keyCode <= 105 THEN <<DigitChars[e.keyCode - 96 + 1]>>
  ELSE IF e.keyCode >= 65 /\ e.keyCode <= 90 THEN <<"a">>
  ELSE IF e.keyCode = 32 THEN <<" ">>
  ELSE IF e.keyCode = 189 THEN <<"-">>
  ELSE IF e.keyCode = 106 THEN <<"*">>
  ELSE <<>>

\* C11: a keystroke that is neither a control / navigation key nor a modifier
\* shortcut, in a field with fewer than 16 digits, is allowed if and only if
\* its character is a decimal digit.
C11_DigitsOnly ==
  (/\ filter # "none"
   /\ ~ControlNavigationKey(key)
   /\ ~ModifierShortcut(key)
   /\ Len(DigitsIn(key.targetValue)) < 16)
    => (~prevented <=> (KeyCharacter(key) # <<>> /\ IsDigitString(KeyCharacter(key))))

C11_Witness ==
  /\ filter = "AtmNumberInput"
  /\ key.keyCode = 57
  /\ key.shiftKey
  /\ ~key.ctrlKey
  /\ key.targetValue # <<>>
  /\ Len(DigitsIn(key.targetValue)) < 16
  /\ prevented

(***************************************************************************)
(* The formatters against maxLength and against the validators.            *)
(***************************************************************************)
\* maxLength of the ATM number inputs of the react-hook-form forms
AtmMaxLength == 22
\* maxLength of the account number input
AccountMaxLength == 14

\* C15: no string formatAtmNumber returns is longer than the ATM input's
\* maxLength of 22, and none formatAccountNumber returns is longer than 14.
C15_MaxLengthFits ==
  Formatted =>
    /\ (op \in {"formatAtmNumber", "formatAtmNumberSingle"} => Len(res) <= AtmMaxLength)
    /\ (op = "formatAccountNumber" => Len(res) <= AccountMaxLength)

\* C17: the output of a formatter passes the validator of its form if and
\* only if the raw input holds at least 16 (account: 10) digits.
C17_FormatterValidatorAgree ==
  (op \in Formatters /\ verdict # "none") =>
    ((verdict = NoError) <=> (Len(DigitsIn(raw)) >= MaxDigitsOf(op)))

C17_Witness ==
  /\ op = "formatAtmNumber"
  /\ ~IsDigitString(raw)
  /\ Len(DigitsIn(raw)) = 15
  /\ verdict = "ATM number must be in format: 0000 - 0000 - 0000 - 0000"

(***************************************************************************)
(* Change events of the form inputs.  A change event carries the text of   *)
(* the input after the user's edit: a digit typed at the end, the last     *)
(* character deleted, a text pasted at the end, or the whole text          *)
(* replaced.  maxLength is <<>> for an input without the attribute, <<n>>  *)
(* for maxLength={n}: the browser then inserts nothing at n characters     *)
(* and cuts what is inserted to n.                                         *)
(***************************************************************************)
TypedDigits == {"7"}

ChangeTexts == { Digs(5), Digs(14), Digs(16), <<"a", "7", " ">> }

HasRoom(v, maxLength) == maxLength = <<>> \/ Len(v) < maxLength[1]

CutTo(t, maxLength) == IF maxLength = <<>> THEN t ELSE Slice(t, 0, maxLength[1])

TypeEvents(field, v, maxLength) ==
  { [field |-> field, kind |-> "type", before |-> v, raw |-> v \o <<d>>] :
      d \in IF HasRoom(v, maxLength) THEN TypedDigits ELSE {} }

ChangeEvents(field, v, maxLength) ==
  TypeEvents(field, v, maxLength)
  \cup { [field |-> field, kind |-> "backspace", before |-> v,
          raw |-> SubSeq(v, 1, Len(v) - 1)] : x \in IF v # <<>> THEN {0} ELSE {} }
  \cup { [field |-> field, kind |-> "paste", before |-> v,
          raw |-> CutTo(v \o t, maxLength)] :
            t \in IF HasRoom(v, maxLength) THEN ChangeTexts ELSE {} }
  \cup { [field |-> field, kind |-> "replace", before |-> v, raw |-> t] :
            t \in ChangeTexts }

(***************************************************************************)
(* The ATM Number Registration form: AtmNumberForm with useAtmMask.        *)
(***************************************************************************)
\* handleAtmChange, whose onChange is handleAtmNumberChange
HandleAtmNumberChange(c) ==
  /\ changes < MaxChanges
  /\ atmNumber' = useAtmMask_formatAtmNumber(c.raw)
  /\ error' = IF error # NoError THEN NoError ELSE error
  /\ change' = c
  /\ changes' = changes + 1
  /\ UNCHANGED <<isSubmitting, submission, reported>>
  /\ UNCHANGED <<fmtVars, keyVars, twoVars>>

\* handleSubmit up to its await; the button is disabled while isSubmitting.
\* submission holds the atmNumber the running call has closed over.
HandleSubmit ==
  /\ ~isSubmitting
  /\ LET validationError == validateAtmNumber(atmNumber)
     IN  IF validationError # NoError
           THEN /\ error' = validationError
                /\ UNCHANGED <<isSubmitting, submission>>
           ELSE /\ isSubmitting' = TRUE
                /\ error' = NoError
                /\ submission' = <<atmNumber>>
  /\ UNCHANGED <<atmNumber, reported>>
  /\ UNCHANGED <<fmtVars, keyVars, twoVars, changeVars>>

\* handleSubmit after the await, reading the field as it is then
HandleSubmitResume_readsField ==
  /\ submission # <<>>
  /\ reported' = <<[pressed |-> submission[1], clean |-> StripSpaceHyphen(atmNumber)]>>
  /\ atmNumber' = <<>>
  /\ isSubmitting' = FALSE
  /\ submission' = <<>>
  /\ UNCHANGED error
  /\ UNCHANGED <<fmtVars, keyVars, twoVars, changeVars>>

\* handleSubmit after the await that leaves the field as it is
HandleSubmitResume_noReset ==
  /\ submission # <<>>
  /\ reported' = <<[pressed |-> submission[1], clean |-> StripSpaceHyphen(submission[1])]>>
  /\ isSubmitting' = FALSE
  /\ submission' = <<>>
  /\ UNCHANGED <<atmNumber, error>>
  /\ UNCHANGED <<fmtVars, keyVars, twoVars, changeVars>>

\* handleSubmit after the await: the simulated call has resolved
HandleSubmitResume ==
  /\ submission # <<>>
  /\ reported' = <<[pressed |-> submission[1], clean |-> StripSpaceHyphen(submission[1])]>>
  /\ atmNumber' = <<>>
  /\ isSubmitting' = FALSE
  /\ submission' = <<>>
  /\ UNCHANGED error
  /\ UNCHANGED <<fmtVars, keyVars, twoVars, changeVars>>

NextReg ==
  \/ \E c \in ChangeEvents("registration.atmNumber", atmNumber, <<>>) :
       HandleAtmNumberChange(c)
  \/ HandleSubmit
  \/ HandleSubmitResume

(***************************************************************************)
(* The two-field ATM Number Form: react-hook-form with formSchema.         *)
(***************************************************************************)
\* handleAtmInputChange: setValue with shouldValidate
HandleAtmInputChange(c) ==
  /\ atmValue' = formatAtmNumber(c.raw)
  /\ atmError' = formSchema_atmNumber(formatAtmNumber(c.raw))
  /\ change' = c
  /\ UNCHANGED <<accountValue, accountError, formSubmitted>>
  /\ UNCHANGED <<fmtVars, keyVars, regVars>>

\* handleAccountInputChange that stores e.target.value, not the formatted value
HandleAccountInputChange_storesRaw(c) ==
  /\ accountValue' = c.raw
  /\ accountError' = formSchema_accountNumber(c.raw)
  /\ change' = c
  /\ UNCHANGED <<atmValue, atmError, formSubmitted>>
  /\ UNCHANGED <<fmtVars, keyVars, regVars>>

\* handleAccountInputChange: setValue with shouldValidate
HandleAccountInputChange(c) ==
  /\ accountValue' = formatAccountNumber(c.raw)
  /\ accountError' = formSchema_accountNumber(formatAccountNumber(c.raw))
  /\ change' = c
  /\ UNCHANGED <<atmValue, atmError, formSubmitted>>
  /\ UNCHANGED <<fmtVars, keyVars, regVars>>

\* handleSubmit(onSubmit): onSubmit runs when the resolver finds no error
OnSubmit ==
  /\ atmError' = formSchema_atmNumber(atmValue)
  /\ accountError' = formSchema_accountNumber(accountValue)
  /\ formSubmitted' =
       IF /\ formSchema_atmNumber(atmValue) = NoError
          /\ formSchema_accountNumber(accountValue) = NoError
         THEN <<[atmNumber |-> atmValue, accountNumber |-> accountValue]>>
         ELSE formSubmitted
  /\ UNCHANGED <<atmValue, accountValue>>
  /\ UNCHANGED <<fmtVars, keyVars, regVars, changeVars>>

\* any edit of the ATM number input
EditAtm(c) ==
  /\ changes < MaxChanges
  /\ HandleAtmInputChange(c)
  /\ changes' = changes + 1

\* any edit of the account number input
EditAccount(c) ==
  /\ changes < MaxChanges
  /\ HandleAccountInputChange(c)
  /\ changes' = changes + 1

NextTwo ==
  \/ \E c \in ChangeEvents("atmNumber", atmValue, <<AtmMaxLength>>) : EditAtm(c)
  \/ \E c \in ChangeEvents("accountNumber", accountValue, <<AccountMaxLength>>) :
       EditAccount(c)
  \/ OnSubmit

\* a digit typed at the end of the ATM number input
TypeAtm(c) ==
  /\ HandleAtmInputChange(c)
  /\ UNCHANGED changes

\* a digit typed at the end of the account number input
TypeAccount(c) ==
  /\ HandleAccountInputChange(c)
  /\ UNCHANGED changes

NextTyping ==
  \/ \E c \in TypeEvents("atmNumber", atmValue, <<AtmMaxLength>>) : TypeAtm(c)
  \/ \E c \in TypeEvents("accountNumber", accountValue, <<AccountMaxLength>>) :
       TypeAccount(c)
  \/ OnSubmit

InitForms ==
  /\ raw = <<>>
  /\ op = "none"
  /\ calls = 0
  /\ res = <<>>
  /\ res2 = <<>>
  /\ verdict = "none"
  /\ KeyIdle
  /\ FormsIdle

NextForms == NextReg \/ NextTwo

\* both forms, any edits
SpecForms == InitForms /\ [][NextForms]_vars

\* the registration form; the timer of the simulated call fires
SpecRegLive == InitForms /\ [][NextReg]_vars /\ WF_vars(HandleSubmitResume)

\* the two-field form, digits typed one at a time
SpecTyping == InitForms /\ [][NextTyping]_vars

(***************************************************************************)
(* Properties of the forms.                                                *)
(***************************************************************************)
\* v is at most max digits, grouped and joined by " - ", and nothing else
Canonical(v, groups, max) ==
  /\ Len(DigitsIn(v)) <= max
  /\ \A i \in 1..Len(v) : IsDigit(v[i]) \/ v[i] \in {" ", "-"}
  /\ v = Glue(SplitBy(DigitsIn(v), groups), <<" ", "-", " ">>)

\* C12: after any sequence of change events the value stored for each ATM
\* field and for the account field is a canonical formatted string.
C12_SanitisedDisplay ==
  /\ Canonical(atmNumber, AtmGroups, 16)
  /\ Canonical(atmValue, AtmGroups, 16)
  /\ Canonical(accountValue, AccountGroups, 10)

C12_Witness ==
  /\ change.field = "accountNumber"
  /\ change.kind = "paste"
  /\ Len(DigitsIn(change.raw)) > 10
  /\ accountValue # change.raw
  /\ Len(DigitsIn(accountValue)) = 10

\* C13: in the registration form a change event that leaves the field
\* invalid leaves the validation message in the error state.
C13_RealTimeValidation ==
  [][(/\ changes' = changes + 1
      /\ change'.field = "registration.atmNumber"
      /\ validateAtmNumber(atmNumber') # NoError)
       => error' = validateAtmNumber(atmNumber')]_vars

\* C14: a number is reported only for a value that passed validateAtmNumber
\* when submit was pressed, and it is that value's 16 digits; a press on an
\* invalid value sets the error and starts no submission.
C14_SubmitGating ==
  /\ [](reported # <<>> =>
          /\ validateAtmNumber(reported[1].pressed) = NoError
          /\ reported[1].clean = DigitsIn(reported[1].pressed)
          /\ Len(reported[1].clean) = 16)
  /\ [][(submission = <<>> /\ submission' # <<>>) =>
          /\ submission'[1] = atmNumber
          /\ validateAtmNumber(atmNumber) = NoError]_vars
  /\ [][(HandleSubmit /\ validateAtmNumber(atmNumber) # NoError) =>
          /\ error' = validateAtmNumber(atmNumber)
          /\ submission' = <<>>
          /\ ~isSubmitting']_vars

C14_Witness ==
  /\ reported # <<>>
  /\ changes = 2
  /\ change.kind = "backspace"
  /\ change.before = reported[1].pressed
  /\ atmNumber = <<>>

\* the stored value of a form field
FieldValue(f) ==
  IF f = "registration.atmNumber" THEN atmNumber
  ELSE IF f = "atmNumber" THEN atmValue
  ELSE accountValue

FieldGroups(f) == IF f = "accountNumber" THEN AccountGroups ELSE AtmGroups

\* C18: deleting the last character of a field value and handling the change
\* leaves the formatted string of the same digits without the last one.
C18_BackspaceRemovesOneDigit ==
  [][\A f \in {"registration.atmNumber", "atmNumber", "accountNumber"} :
       (changes' = changes + 1 /\ change'.kind = "backspace" /\ change'.field = f) =>
         /\ change'.before = FieldValue(f)
         /\ DigitsIn(FieldValue(f)') =
              SubSeq(DigitsIn(FieldValue(f)), 1, Len(DigitsIn(FieldValue(f))) - 1)
         /\ FieldValue(f)' =
              Glue(SplitBy(DigitsIn(FieldValue(f)'), FieldGroups(f)), <<" ", "-", " ">>)
         /\ IsDigit(FieldValue(f)[Len(FieldValue(f))])]_vars

C18_Witness ==
  /\ change.field = "atmNumber"
  /\ change.kind = "backspace"
  /\ change.before = <<"1", "2", "3", "4", " ", "-", " ", "5">>
  /\ atmValue = <<"1", "2", "3", "4">>

\* C16: typing digits one at a time, each accepted while the field is shorter
\* than its maxLength, ends with an ATM value and an account value that both
\* pass formSchema.
C16_TypingReachesValid ==
  (/\ ~HasRoom(atmValue, <<AtmMaxLength>>)
   /\ ~HasRoom(accountValue, <<AccountMaxLength>>))
    => /\ formSchema_atmNumber(atmValue) = NoError
       /\ formSchema_accountNumber(accountValue) = NoError

\* C19: a submission that passes validation sets isSubmitting; isSubmitting
\* leads to a state with isSubmitting false and the field empty; isSubmitting
\* holds only while a submission is in flight.
C19_SubmissionCompletes ==
  /\ [][(HandleSubmit /\ validateAtmNumber(atmNumber) = NoError) => isSubmitting']_vars
  /\ (isSubmitting ~> (~isSubmitting /\ atmNumber = <<>>))
  /\ [](isSubmitting => submission # <<>>)

C19_Witness ==
  /\ isSubmitting
  /\ submission # <<>>
  /\ atmNumber # submission[1]
  /\ change.before = submission[1]

====
